---------------------------- MODULE Spec2Model ----------------------------
(***************************************************************************)
(* bufferlinks: a feed is fetched, the anchors of every item's HTML body   *)
(* are extracted (walkHTML, flatten, linkVisitor, findLinks), the items    *)
(* are assembled into articles (fetch), published as app.lastFetch         *)
(* (refreshFeeds) and merged with the dismissals and queue records of the  *)
(* link store (app.articles).                                              *)
(***************************************************************************)
EXTENDS Naturals, Sequences, FiniteSets, TLC

VARIABLES
  tree,         \* SpecWalk: the *html.Node handed to walkHTML / findLinks
  probe,        \* SpecWalk: the visitor handed to walkHTML
  calls,        \* SpecWalk: the visit calls made by the last walk, in order
  found,        \* SpecWalk: what findLinks returned
  wop,          \* SpecWalk: the last operation applied
  feed,         \* SpecFetch: what rss.Fetch returned
  fetched,      \* SpecFetch: what fetch returned
  lastFetch,    \* app.lastFetch: the published batch
  articleRows,  \* table "articles" of the link store, in rowid order
  linkRows,     \* table "links" of the link store, in rowid order
  now,          \* the wall clock read by time.Now()
  ret,          \* what the last handler returned
  lastOp,       \* the last handler that ran, with its inputs
  heap,         \* SpecConc: the backing arrays of the live slices, by pointer
  hdr,          \* SpecConc: the slice header of a.lastFetch, word by word
  rpc,          \* SpecConc: position of the goroutine running refreshFeeds
  rlocal,       \* SpecConc: locals of that goroutine
  hpc,          \* SpecConc: position of the goroutine running app.articles
  view,         \* SpecConc: the slice the range loop of app.articles iterates,
                \* and whether it was, when loaded, the batch last published
                \* or the one being published
  published     \* SpecConc: the batch last assigned to a.lastFetch in full

walkVars == <<tree, probe, calls, found, wop>>
fetchVars == <<feed, fetched>>
appVars == <<lastFetch, articleRows, linkRows, now, ret, lastOp>>
concVars == <<heap, hdr, rpc, rlocal, hpc, view, published>>
vars == <<walkVars, fetchVars, appVars, concVars>>

(***************************************************************************)
(* Bounds of the model.                                                    *)
(***************************************************************************)
MaxNodes == 3      \* nodes of an enumerated HTML tree
MaxItems == 2      \* items of an enumerated feed
MaxInserts == 2    \* rows inserted into the link store
MaxSortLen == 7    \* articles of a batch handed to the date sort

(***************************************************************************)
(* html.Node.  Type, DataAtom, Data and Attr are the fields the code       *)
(* reads; kids is the FirstChild/NextSibling chain in document order.      *)
(***************************************************************************)
NilNode == [Type |-> "nil"]

TextNode(s) ==
  [Type |-> "TextNode", DataAtom |-> "", Data |-> s, Attr |-> <<>>, kids |-> <<>>]

Element(tag, at, ks) ==
  [Type |-> "ElementNode", DataAtom |-> tag, Data |-> tag, Attr |-> at, kids |-> ks]

DocumentNode(ks) ==
  [Type |-> "DocumentNode", DataAtom |-> "", Data |-> "", Attr |-> <<>>, kids |-> ks]

(***************************************************************************)
(* strings.ToLower on the attribute keys and titles that occur.            *)
(***************************************************************************)
ToLower(s) ==
  CASE s = "HREF" -> "href"
    [] s = "Href" -> "href"
    [] s = "Assorted Links" -> "assorted links"
    [] s = "Tuesday LINKS" -> "tuesday links"
    [] s = "Essay on Linkage" -> "essay on linkage"
    [] s = "Markets in Everything" -> "markets in everything"
    [] OTHER -> s

(***************************************************************************)
(* strings.Contains(s, "link") on the lower-cased titles that occur.       *)
(***************************************************************************)
ContainsLink(s) ==
  s \in {"assorted links", "tuesday links", "essay on linkage", "more links",
         "broken links", "link"}

(***************************************************************************)
(* url.Parse on the strings that occur: err is a parse failure, Host the   *)
(* host component ("" for a relative reference).                           *)
(***************************************************************************)
urlParse(s) ==
  CASE s = "http://example.com/" -> [err |-> FALSE, Host |-> "example.com"]
    [] s = "http://example.com/1" -> [err |-> FALSE, Host |-> "example.com"]
    [] s = "http://example.com/2" -> [err |-> FALSE, Host |-> "example.com"]
    [] s = "http://example.com/3" -> [err |-> FALSE, Host |-> "example.com"]
    [] s = "http://example.com/x" -> [err |-> FALSE, Host |-> "example.com"]
    [] s = "http://other.com/y" -> [err |-> FALSE, Host |-> "other.com"]
    [] s = "http://third.org/z" -> [err |-> FALSE, Host |-> "third.org"]
    [] s = "/about" -> [err |-> FALSE, Host |-> ""]
    [] s = "" -> [err |-> FALSE, Host |-> ""]
    [] s = "%zz" -> [err |-> TRUE, Host |-> ""]
    [] s = ":bad" -> [err |-> TRUE, Host |-> ""]
    [] OTHER -> [err |-> FALSE, Host |-> ""]

(***************************************************************************)
(* attr: the value of the first attribute whose lower-cased key is name,   *)
(* "" when there is none.                                                  *)
(***************************************************************************)
RECURSIVE attrFrom(_, _, _)
RECURSIVE attrFromExact(_, _, _)

\* attr comparing the keys as written.
attrFromExact(at, i, name) ==
  IF i > Len(at) THEN ""
  ELSE IF at[i].Key = name THEN at[i].Val
  ELSE attrFromExact(at, i + 1, name)

attr_CaseSensitive(n, name) == attrFromExact(n.Attr, 1, name)

attrFrom(at, i, name) ==
  IF i > Len(at) THEN ""
  ELSE IF ToLower(at[i].Key) = name THEN at[i].Val
  ELSE attrFrom(at, i + 1, name)

attr(n, name) == attrFrom(n.Attr, 1, name)

(***************************************************************************)
(* The visitors.  A visitor is a value; the state its visit method writes  *)
(* (the flattener's buffer, the link visitor's links, the calls a probe    *)
(* receives) is threaded through the walk as s.                            *)
(***************************************************************************)
NilVisitor == [kind |-> "nil"]
flattenVisitor == [kind |-> "flatten"]
linkVisitor == [kind |-> "link"]

\* A visitor under test: it records every call, returns nil on a node whose
\* Data is stopAt, and otherwise returns the visitor numbered next.
Probe(id, stopAt, switch) ==
  [kind |-> "probe", id |-> id, stopAt |-> stopAt, switch |-> switch]

OtherId(id) == IF id = 1 THEN 2 ELSE 1

probeVisit(v, n, s) ==
  LET s2 == Append(s, [visitor |-> v.id, node |-> n])
  IN IF n = NilNode THEN [next |-> NilVisitor, st |-> s2]
     ELSE IF n.Data = v.stopAt THEN [next |-> NilVisitor, st |-> s2]
     ELSE [next |-> IF v.switch THEN Probe(OtherId(v.id), v.stopAt, v.switch) ELSE v,
           st |-> s2]

flattenVisit(v, n, s) ==
  IF n = NilNode THEN [next |-> NilVisitor, st |-> s]
  ELSE [next |-> v,
        st |-> IF n.Type = "TextNode" THEN s \o (n.Data \o " ") ELSE s]

newLink(href, host, context) ==
  [ID |-> 0, URL |-> href, Domain |-> host, Context |-> context,
   Queued |-> FALSE, QueuedAt |-> 0]

RECURSIVE walkHTML(_, _, _)
RECURSIVE walkChildren(_, _, _, _)

flatten(n) == walkHTML(n, flattenVisitor, "")

linkVisit(v, n, s) ==
  IF n = NilNode THEN [next |-> NilVisitor, st |-> s]
  ELSE [next |-> v,
        st |-> IF n.Type = "ElementNode" /\ n.DataAtom = "a"
                    /\ attr(n, "href") # ""
                    /\ ~urlParse(attr(n, "href")).err
               THEN Append(s, newLink(attr(n, "href"),
                                      urlParse(attr(n, "href")).Host,
                                      flatten(n)))
               ELSE s]

visit(v, n, s) ==
  CASE v.kind = "flatten" -> flattenVisit(v, n, s)
    [] v.kind = "link" -> linkVisit(v, n, s)
    [] v.kind = "probe" -> probeVisit(v, n, s)

walkChildren(ks, i, vv, s) ==
  IF i > Len(ks) THEN s
  ELSE walkChildren(ks, i + 1, vv, walkHTML(ks[i], vv, s))

\* walkHTML signalling the exit to the successor visitor.
walkHTML_ExitOnSuccessor(n, v, s) ==
  LET r == visit(v, n, s)
  IN IF r.next = NilVisitor THEN r.st
     ELSE visit(r.next, NilNode, walkChildren(n.kids, 1, r.next, r.st)).st

walkHTML(n, v, s) ==
  LET r == visit(v, n, s)
  IN IF r.next = NilVisitor THEN r.st
     ELSE visit(v, NilNode, walkChildren(n.kids, 1, r.next, r.st)).st

(***************************************************************************)
(* html.Parse: the content of an item is either a document tree or, when   *)
(* the parser fails, ParseError.                                           *)
(***************************************************************************)
ParseError == [Type |-> "error"]

findLinks(content) ==
  IF content = ParseError THEN [links |-> <<>>, err |-> TRUE]
  ELSE [links |-> walkHTML(content, linkVisitor, <<>>), err |-> FALSE]

(***************************************************************************)
(* fetch: resp is what rss.Fetch returned (ok: no error; Title, Link and   *)
(* Items of the feed).                                                     *)
(***************************************************************************)
newArticle(item, filtered, feedTitle) ==
  [ID |-> 0, Title |-> item.Title, URL |-> item.Link, Links |-> filtered,
   Feed |-> feedTitle, Date |-> item.Date]

RECURSIVE filterSelfLinks(_, _, _, _)
filterSelfLinks(links, i, feedHost, filtered) ==
  IF i > Len(links) THEN filtered
  ELSE LET linkurl == urlParse(links[i].URL)
       IN IF ~linkurl.err /\ linkurl.Host = feedHost
          THEN filterSelfLinks(links, i + 1, feedHost, filtered)
          ELSE filterSelfLinks(links, i + 1, feedHost, Append(filtered, links[i]))

\* The iteration emitting an article only when a link survives the filter.
fetchItem_NeedsOutbound(resp, i, feedHost, all) ==
  LET item == resp.Items[i]
  IN IF ~ContainsLink(ToLower(item.Title)) THEN all
     ELSE LET links == findLinks(item.Content).links
              filtered == filterSelfLinks(links, 1, feedHost, <<>>)
          IN IF Len(filtered) > 0
             THEN Append(all, newArticle(item, filtered, resp.Title))
             ELSE all

\* One iteration of the loop over feed.Items: all after item i.
fetchItem(resp, i, feedHost, all) ==
  LET item == resp.Items[i]
  IN IF ~ContainsLink(ToLower(item.Title)) THEN all
     ELSE LET links == findLinks(item.Content).links
              filtered == filterSelfLinks(links, 1, feedHost, <<>>)
          IN IF Len(links) > 0
             THEN Append(all, newArticle(item, filtered, resp.Title))
             ELSE all

RECURSIVE fetchItems(_, _, _, _)
fetchItems(resp, i, feedHost, all) ==
  IF i > Len(resp.Items) THEN all
  ELSE fetchItems(resp, i + 1, feedHost, fetchItem(resp, i, feedHost, all))

fetch(resp) ==
  IF ~resp.ok THEN [articles |-> <<>>, err |-> TRUE]
  ELSE IF urlParse(resp.Link).err THEN [articles |-> <<>>, err |-> TRUE]
  ELSE [articles |-> fetchItems(resp, 1, urlParse(resp.Link).Host, <<>>),
        err |-> FALSE]

(***************************************************************************)
(* The link store.  A table is the sequence of its rows in rowid order;    *)
(* SELECT ... WHERE url=? LIMIT 1 yields the first row with that url and   *)
(* sql.ErrNoRows (found = FALSE) when there is none.                       *)
(***************************************************************************)
NoRow == [ID |-> 0, URL |-> "", At |-> 0]

FirstMatch(rows, url) ==
  LET hits == { i \in 1..Len(rows) : rows[i].URL = url }
  IN IF hits = {} THEN [found |-> FALSE, state |-> NoRow]
     ELSE [found |-> TRUE,
           state |-> rows[CHOOSE i \in hits : \A j \in hits : i <= j]]

LastMatch(rows, url) ==
  LET hits == { i \in 1..Len(rows) : rows[i].URL = url }
  IN IF hits = {} THEN [found |-> FALSE, state |-> NoRow]
     ELSE [found |-> TRUE,
           state |-> rows[CHOOSE i \in hits : \A j \in hits : i >= j]]

\* findArticle: state.At is DismissedAt.
findArticle(rows, url) == FirstMatch(rows, url)

\* findLink reading the newest row.
findLink_Newest(rows, url) == LastMatch(rows, url)

\* findLink: state.At is QueuedAt.
findLink(rows, url) == FirstMatch(rows, url)

\* markArticleDismissed and markLinkQueued: one row inserted, stamped
\* time.Now().
insertRow(rows, url, t) == Append(rows, [ID |-> Len(rows) + 1, URL |-> url, At |-> t])

(***************************************************************************)
(* sort.Sort(byDate(xs)) on a slice of at most 12 elements: one Shell pass *)
(* with gap 6, then insertion sort.  xs holds the positions of the         *)
(* articles in batch; Less and Swap are those of byDate.                   *)
(***************************************************************************)
byDateLess_After(x, y) == x.Date > y.Date

byDateLess(x, y) == x.Date < y.Date

byDateSwap(xs, i, j) == [xs EXCEPT ![i] = xs[j], ![j] = xs[i]]

RECURSIVE shellPass(_, _, _)
shellPass(xs, batch, i) ==
  IF i > Len(xs) THEN xs
  ELSE IF byDateLess(batch[xs[i]], batch[xs[i - 6]])
       THEN shellPass(byDateSwap(xs, i, i - 6), batch, i + 1)
       ELSE shellPass(xs, batch, i + 1)

RECURSIVE insertDown(_, _, _)
insertDown(xs, batch, j) ==
  IF j > 1 /\ byDateLess(batch[xs[j]], batch[xs[j - 1]])
  THEN insertDown(byDateSwap(xs, j, j - 1), batch, j - 1)
  ELSE xs

RECURSIVE insertionSort(_, _, _)
insertionSort(xs, batch, i) ==
  IF i > Len(xs) THEN xs
  ELSE insertionSort(insertDown(xs, batch, i), batch, i + 1)

sortSort(xs, batch) ==
  IF Len(xs) > 1 THEN insertionSort(shellPass(xs, batch, 7), batch, 2) ELSE xs

(***************************************************************************)
(* app.articles over the batch a.lastFetch.  The links are updated in      *)
(* place, so the batch itself is part of the result; failAt numbers the    *)
(* store lookup that fails with an error other than sql.ErrNoRows (0:      *)
(* none does), k counts the lookups made.                                  *)
(***************************************************************************)
RECURSIVE reconcileLinks(_, _, _, _, _)
reconcileLinks(links, j, lRows, failAt, k) ==
  IF j > Len(links) THEN [links |-> links, k |-> k, err |-> FALSE]
  ELSE IF failAt = k + 1 THEN [links |-> links, k |-> k + 1, err |-> TRUE]
  ELSE LET state == findLink(lRows, links[j].URL)
       IN reconcileLinks(
            IF state.found
            THEN [links EXCEPT ![j].Queued = TRUE, ![j].QueuedAt = state.state.At]
            ELSE links,
            j + 1, lRows, failAt, k + 1)

\* The dismissal test of the loop.
isDismissed_Never(state) == FALSE

isDismissed(state) == state.found /\ state.state.At # 0

RECURSIVE reconcileFrom(_, _, _, _, _, _, _)
reconcileFrom(batch, i, filtered, aRows, lRows, failAt, k) ==
  IF i > Len(batch)
  THEN [batch |-> batch, filtered |-> filtered, err |-> FALSE, errURL |-> "",
        lookups |-> k]
  ELSE IF failAt = k + 1
  THEN [batch |-> batch, filtered |-> filtered, err |-> TRUE,
        errURL |-> batch[i].URL, lookups |-> k + 1]
  ELSE IF isDismissed(findArticle(aRows, batch[i].URL))
  THEN reconcileFrom(batch, i + 1, filtered, aRows, lRows, failAt, k + 1)
  ELSE LET r == reconcileLinks(batch[i].Links, 1, lRows, failAt, k + 1)
           batch2 == [batch EXCEPT ![i].Links = r.links]
       IN IF r.err
          THEN [batch |-> batch2, filtered |-> Append(filtered, i), err |-> TRUE,
                errURL |-> batch[i].URL, lookups |-> r.k]
          ELSE reconcileFrom(batch2, i + 1, Append(filtered, i), aRows, lRows,
                             failAt, r.k)

\* app.articles returning what was reconciled before the failing lookup.
articles_Partial(batch, aRows, lRows, failAt) ==
  LET r == reconcileFrom(batch, 1, <<>>, aRows, lRows, failAt, 0)
      sorted == sortSort(r.filtered, r.batch)
  IN [list |-> [n \in 1..Len(sorted) |-> r.batch[sorted[n]]],
      err |-> r.err, errURL |-> r.errURL, batch |-> r.batch,
      lookups |-> r.lookups]

articles(batch, aRows, lRows, failAt) ==
  LET r == reconcileFrom(batch, 1, <<>>, aRows, lRows, failAt, 0)
      sorted == sortSort(r.filtered, r.batch)
  IN [list |-> IF r.err THEN <<>> ELSE [n \in 1..Len(sorted) |-> r.batch[sorted[n]]],
      err |-> r.err, errURL |-> r.errURL, batch |-> r.batch,
      lookups |-> r.lookups]

\* The number of lookups app.articles makes when none fails.
lookupsOf(batch, aRows, lRows) == articles(batch, aRows, lRows, 0).lookups

(***************************************************************************)
(* The inputs of the walk: every tree of at most MaxNodes nodes over the   *)
(* node kinds the visitors tell apart.                                     *)
(***************************************************************************)
TextLeaves == {TextNode("x"), TextNode("y")}

ElementHeads ==
  { [tag |-> "a", at |-> <<[Key |-> "href", Val |-> "http://other.com/y"]>>],
    [tag |-> "a", at |-> <<[Key |-> "class", Val |-> "c"],
                           [Key |-> "HREF", Val |-> "http://example.com/x"]>>],
    [tag |-> "a", at |-> <<[Key |-> "href", Val |-> ""]>>],
    [tag |-> "a", at |-> <<[Key |-> "name", Val |-> "top"]>>],
    [tag |-> "a", at |-> <<[Key |-> "href", Val |-> "%zz"]>>],
    [tag |-> "div", at |-> <<>>] }

RECURSIVE TreesOfSize(_)
RECURSIVE ForestsOfSize(_)

TreesOfSize(n) ==
  IF n = 0 THEN {}
  ELSE (IF n = 1 THEN TextLeaves ELSE {})
       \cup { Element(h.tag, h.at, f) : h \in ElementHeads, f \in ForestsOfSize(n - 1) }

ForestsOfSize(m) ==
  IF m = 0 THEN {<<>>}
  ELSE UNION { { <<t>> \o f : t \in TreesOfSize(k), f \in ForestsOfSize(m - k) }
               : k \in 1..m }

Trees == UNION { TreesOfSize(n) : n \in 1..MaxNodes }

Probes ==
  { Probe(1, stopAt, switch) : stopAt \in {"none", "a", "div", "x"},
                               switch \in BOOLEAN }

NoLinks == [links |-> <<>>, err |-> FALSE]

InitWalkVars ==
  /\ probe = NilVisitor
  /\ calls = <<>>
  /\ found = NoLinks
  /\ wop = "init"

InitFetchVars ==
  /\ feed = [ok |-> FALSE, Title |-> "", Link |-> "", Items |-> <<>>]
  /\ fetched = [articles |-> <<>>, err |-> FALSE, done |-> FALSE]

InitStoreVars ==
  /\ articleRows = <<>>
  /\ linkRows = <<>>
  /\ now = 1
  /\ ret = [op |-> "none"]
  /\ lastOp = [op |-> "init"]

InitAppVars ==
  /\ lastFetch = <<>>
  /\ InitStoreVars

NoLocals == [resp |-> [ok |-> FALSE, Title |-> "", Link |-> "", Items |-> <<>>],
             i |-> 0, all |-> <<>>, ptr |-> 0, wrote |-> {}, old |-> [ptr |-> 0, len |-> 0]]

NoView == [elems |-> <<>>, whole |-> TRUE]

InitConcVars ==
  /\ heap = <<<<>>, <<>>>>
  /\ hdr = [ptr |-> 0, len |-> 0]
  /\ rpc = "idle"
  /\ rlocal = NoLocals
  /\ hpc = "idle"
  /\ view = NoView
  /\ published = <<>>

(***************************************************************************)
(* SpecWalk: walkHTML and findLinks applied to every tree.                 *)
(***************************************************************************)
InitWalk ==
  /\ tree \in Trees \cup {ParseError}
  /\ InitWalkVars
  /\ InitFetchVars
  /\ InitAppVars
  /\ InitConcVars

Walk(v) ==
  /\ wop = "init"
  /\ tree # ParseError
  /\ probe' = v
  /\ calls' = walkHTML(tree, v, <<>>)
  /\ wop' = "walkHTML"
  /\ UNCHANGED <<tree, found, fetchVars, appVars, concVars>>

FindLinks ==
  /\ wop = "init"
  /\ found' = findLinks(tree)
  /\ wop' = "findLinks"
  /\ UNCHANGED <<tree, probe, calls, fetchVars, appVars, concVars>>

NextWalk ==
  \/ \E v \in Probes : Walk(v)
  \/ FindLinks

SpecWalk == InitWalk /\ [][NextWalk]_vars

(***************************************************************************)
(* Positions in a tree: a path is the sequence of child indices leading    *)
(* from the root to a node; document order is the lexicographic order of   *)
(* the paths, a node before its descendants.                               *)
(***************************************************************************)
RECURSIVE NodeAt(_, _)
NodeAt(n, p) == IF p = <<>> THEN n ELSE NodeAt(n.kids[Head(p)], Tail(p))

IsPrefix(p, q) == Len(p) <= Len(q) /\ SubSeq(q, 1, Len(p)) = p

DocBefore(p, q) ==
  \/ p # q /\ IsPrefix(p, q)
  \/ \E i \in 1..Len(p) :
       /\ i <= Len(q)
       /\ SubSeq(p, 1, i - 1) = SubSeq(q, 1, i - 1)
       /\ p[i] < q[i]

RECURSIVE InDocOrder(_)
InDocOrder(S) ==
  IF S = {} THEN <<>>
  ELSE LET first == CHOOSE p \in S : \A q \in S \ {p} : DocBefore(p, q)
       IN <<first>> \o InDocOrder(S \ {first})

\* The paths of the nodes of n that lie under no node whose Data is stopAt
\* (such a node itself included).
RECURSIVE PathsCut(_, _)
PathsCut(n, stopAt) ==
  {<<>>} \cup
  (IF n.Data = stopAt THEN {}
   ELSE UNION { { <<i>> \o q : q \in PathsCut(n.kids[i], stopAt) }
                : i \in 1..Len(n.kids) })

\* No node has the Data "none".
AllPaths(n) == PathsCut(n, "none")

RECURSIVE Concat(_)
Concat(ss) == IF ss = <<>> THEN "" ELSE Head(ss) \o Concat(Tail(ss))

(***************************************************************************)
(* C9: findLinks returns, in document order, one Link for each anchor      *)
(* whose href is non-empty and parses, nested anchors included, and none   *)
(* for the other anchors; URL is the raw href, Domain the parsed host,     *)
(* Queued is false and Context is the text of every text node under the    *)
(* anchor, in document order, each followed by one space.                  *)
(***************************************************************************)
HrefOf(n) ==
  LET hits == { i \in 1..Len(n.Attr) : ToLower(n.Attr[i].Key) = "href" }
  IN IF hits = {} THEN ""
     ELSE n.Attr[CHOOSE i \in hits : \A j \in hits : i <= j].Val

IsLinkAnchor(n) ==
  /\ n.Type = "ElementNode"
  /\ n.DataAtom = "a"
  /\ HrefOf(n) # ""
  /\ ~urlParse(HrefOf(n)).err

TextUnder(n) ==
  LET ps == InDocOrder({ p \in AllPaths(n) : NodeAt(n, p).Type = "TextNode" })
  IN Concat([k \in 1..Len(ps) |-> NodeAt(n, ps[k]).Data \o " "])

ExpectedLinks(t) ==
  LET ps == InDocOrder({ p \in AllPaths(t) : IsLinkAnchor(NodeAt(t, p)) })
  IN [k \in 1..Len(ps) |->
        [ID |-> 0,
         URL |-> HrefOf(NodeAt(t, ps[k])),
         Domain |-> urlParse(HrefOf(NodeAt(t, ps[k]))).Host,
         Context |-> TextUnder(NodeAt(t, ps[k])),
         Queued |-> FALSE,
         QueuedAt |-> 0]]

C9_FindLinksExact ==
  (wop = "findLinks" /\ tree # ParseError) =>
     /\ ~found.err
     /\ found.links = ExpectedLinks(tree)

\* A nested anchor under an anchor with text, both extracted.
C9_Witness ==
  /\ wop = "findLinks"
  /\ tree # ParseError
  /\ Len(found.links) = 2
  /\ tree.DataAtom = "a"
  /\ IsLinkAnchor(tree)
  /\ found.links[1].Context = "x "
  /\ found.links[2].Context = "x "
  /\ found.links[1].Domain = "example.com"

(***************************************************************************)
(* C10: the calls of walkHTML(root, v) follow the enter/exit protocol:     *)
(* the first call is v.visit(root); under a node whose visit returned nil  *)
(* nothing is visited and no exit is made for it; every other node's       *)
(* children are entered in document order by the successor its visit       *)
(* returned, and after them one visit(nil) is made on the visitor that     *)
(* entered the node, so that enters and exits nest.                        *)
(***************************************************************************)
Stops(v, n) == n.Data = v.stopAt

\* The visitor a correct walk hands to the node at depth d.
VisitorAtDepth(v, d) == IF v.switch /\ d % 2 = 1 THEN OtherId(v.id) ELSE v.id

\* Scan of the calls: k counts the enters seen, open is the stack of the
\* visitors whose node was entered and not yet exited.
RECURSIVE Nested(_, _, _, _, _, _)
Nested(t, v, log, ps, k, open) ==
  IF log = <<>> THEN open = <<>> /\ k = Len(ps)
  ELSE LET c == Head(log) IN
       IF c.node = NilNode
       THEN /\ open # <<>>
            /\ c.visitor = open[Len(open)]
            /\ Nested(t, v, Tail(log), ps, k, SubSeq(open, 1, Len(open) - 1))
       ELSE /\ k < Len(ps)
            /\ c.node = NodeAt(t, ps[k + 1])
            /\ Len(open) = Len(ps[k + 1])
            /\ c.visitor = VisitorAtDepth(v, Len(ps[k + 1]))
            /\ Nested(t, v, Tail(log), ps, k + 1,
                      IF Stops(v, c.node) THEN open ELSE Append(open, c.visitor))

ProtocolHolds(t, v, log) ==
  LET ps == InDocOrder(PathsCut(t, v.stopAt))
  IN /\ log # <<>>
     /\ log[1] = [visitor |-> v.id, node |-> t]
     /\ Stops(v, t) => Len(log) = 1
     /\ ~Stops(v, t) => log[Len(log)] = [visitor |-> v.id, node |-> NilNode]
     /\ Nested(t, v, log, ps, 0, <<>>)

C10_WalkProtocol == wop = "walkHTML" => ProtocolHolds(tree, probe, calls)

\* A walk that switches visitors, cuts a subtree and exits the root.
C10_Witness ==
  /\ wop = "walkHTML"
  /\ probe.switch
  /\ probe.stopAt = "div"
  /\ tree.Data = "a"
  /\ Len(tree.kids) = 2
  /\ tree.kids[1].Data = "div"
  /\ tree.kids[2].Type = "TextNode"
  /\ Len(calls) = 5

(***************************************************************************)
(* SpecFetch: fetch applied to every feed of at most MaxItems items.       *)
(***************************************************************************)
Para(ks) == Element("p", <<>>, ks)
Anchor(href, text) ==
  Element("a", <<[Key |-> "href", Val |-> href]>>, <<TextNode(text)>>)
Page(ks) ==
  DocumentNode(<<Element("html", <<>>,
                   <<Element("head", <<>>, <<>>), Element("body", <<>>, ks)>>)>>)

DocMixed ==
  Page(<<Para(<<TextNode("see"), Anchor("http://example.com/x", "here"),
                Anchor("http://other.com/y", "there")>>)>>)
DocSelf == Page(<<Para(<<Anchor("http://example.com/x", "here")>>)>>)
DocNone == Page(<<Para(<<TextNode("see")>>)>>)
DocOut ==
  Page(<<Anchor("http://other.com/y", "there"), Anchor("/about", "about"),
         Anchor("%zz", "bad"), Anchor("http://third.org/z", "z")>>)

Contents == {DocMixed, DocSelf, DocNone, DocOut, ParseError}
Titles ==
  {"Assorted Links", "Tuesday LINKS", "Essay on Linkage", "Markets in Everything"}

\* The link of an item, one per title.
ItemLink(t) ==
  CASE t = "Assorted Links" -> "http://example.com/1"
    [] t = "Tuesday LINKS" -> "http://example.com/2"
    [] t = "Essay on Linkage" -> "http://example.com/x"
    [] OTHER -> "http://example.com/3"

FeedItems ==
  { [Title |-> t, Link |-> ItemLink(t), Content |-> c, Date |-> 1]
    : t \in Titles, c \in Contents }

SeqsUpTo(S, n) == UNION { [1..k -> S] : k \in 0..n }

Feeds ==
  { [ok |-> ok, Title |-> "MR", Link |-> l, Items |-> items]
    : ok \in BOOLEAN, l \in {"http://example.com/", ":bad", "/about"},
      items \in SeqsUpTo(FeedItems, MaxItems) }

InitFetch ==
  /\ feed \in Feeds
  /\ fetched = [articles |-> <<>>, err |-> FALSE, done |-> FALSE]
  /\ tree = NilNode
  /\ InitWalkVars
  /\ InitAppVars
  /\ InitConcVars

Fetch ==
  /\ ~fetched.done
  /\ fetched' = [articles |-> fetch(feed).articles, err |-> fetch(feed).err,
                 done |-> TRUE]
  /\ UNCHANGED <<feed, walkVars, appVars, concVars>>

NextFetch == Fetch

SpecFetch == InitFetch /\ [][NextFetch]_vars

(***************************************************************************)
(* C8: fetch emits an Article for an item iff its title contains "link"    *)
(* in any case and the extraction of its content returned at least one     *)
(* link (a failed extraction counts as none and does not abort); the       *)
(* Article's Links are the extracted links whose host differs from the     *)
(* feed's host, in extraction order; the Articles are in item order.       *)
(***************************************************************************)
TitleHasLink(t) == t \in {"Assorted Links", "Tuesday LINKS", "Essay on Linkage"}

Extracted(c) == IF c = ParseError THEN <<>> ELSE ExpectedLinks(c)

ExpectedArticles(resp) ==
  LET feedHost == urlParse(resp.Link).Host
      Emits(item) == TitleHasLink(item.Title) /\ Len(Extracted(item.Content)) >= 1
      Outbound(l) == urlParse(l.URL).Host # feedHost
      emitted == SelectSeq(resp.Items, Emits)
  IN [k \in 1..Len(emitted) |->
        [ID |-> 0,
         Title |-> emitted[k].Title,
         URL |-> emitted[k].Link,
         Links |-> SelectSeq(Extracted(emitted[k].Content), Outbound),
         Feed |-> resp.Title,
         Date |-> emitted[k].Date]]

C8_FetchAssembles ==
  (fetched.done /\ ~fetched.err) => fetched.articles = ExpectedArticles(feed)

\* A failed extraction and a title miss are skipped, an item whose links
\* are all self-links is emitted with no Links.
C8_Witness ==
  /\ fetched.done
  /\ ~fetched.err
  /\ Len(feed.Items) = 2
  /\ feed.Items[1].Content = ParseError
  /\ TitleHasLink(feed.Items[1].Title)
  /\ feed.Items[2].Content = DocSelf
  /\ Len(fetched.articles) = 1
  /\ fetched.articles[1].Links = <<>>

(***************************************************************************)
(* Spec: the handlers of the app, each run to completion.                  *)
(***************************************************************************)
DocTwo ==
  Page(<<Para(<<Anchor("http://other.com/y", "there"),
                Anchor("http://third.org/z", "z")>>)>>)

AppItems ==
  { [Title |-> "Assorted Links", Link |-> "http://example.com/1",
     Content |-> DocMixed, Date |-> 3],
    [Title |-> "Tuesday LINKS", Link |-> "http://example.com/2",
     Content |-> DocTwo, Date |-> 1],
    [Title |-> "more links", Link |-> "http://example.com/3",
     Content |-> DocSelf, Date |-> 2] }

AppFeeds ==
  { [ok |-> TRUE, Title |-> "MR", Link |-> "http://example.com/", Items |-> items]
    : items \in SeqsUpTo(AppItems, MaxItems) }
  \cup { [ok |-> FALSE, Title |-> "", Link |-> "", Items |-> <<>>] }

\* What fetch returns on the feeds rss.Fetch may deliver.
AppFetches == { fetch(f) : f \in AppFeeds }

DismissURLs == {"http://example.com/1", "http://example.com/2"}
CommitURLs == {"http://other.com/y", "http://third.org/z"}

Init ==
  /\ InitAppVars
  /\ tree = NilNode
  /\ InitWalkVars
  /\ InitFetchVars
  /\ InitConcVars

\* refreshFeeds, r being what fetch returns.
Refresh(r) ==
  /\ IF r.err
     THEN /\ ret' = [op |-> "refreshFeeds", err |-> TRUE]
          /\ UNCHANGED lastFetch
     ELSE /\ ret' = [op |-> "refreshFeeds", err |-> FALSE]
          /\ lastFetch' = r.articles
  /\ lastOp' = [op |-> "refreshFeeds"]
  /\ UNCHANGED <<articleRows, linkRows, now, walkVars, fetchVars, concVars>>

\* markArticleDismissed(url); ok: the insert succeeds.
Dismiss(url, ok) ==
  /\ Len(articleRows) + Len(linkRows) < MaxInserts
  /\ IF ok
     THEN /\ articleRows' = insertRow(articleRows, url, now)
          /\ now' = now + 1
     ELSE UNCHANGED <<articleRows, now>>
  /\ ret' = [op |-> "markArticleDismissed", err |-> ~ok]
  /\ lastOp' = [op |-> "markArticleDismissed"]
  /\ UNCHANGED <<lastFetch, linkRows, walkVars, fetchVars, concVars>>

\* handleCommit: the post to Buffer, then markLinkQueued(url); ok: both
\* succeed.
Commit(url, ok) ==
  /\ Len(articleRows) + Len(linkRows) < MaxInserts
  /\ IF ok
     THEN /\ linkRows' = insertRow(linkRows, url, now)
          /\ now' = now + 1
     ELSE UNCHANGED <<linkRows, now>>
  /\ ret' = [op |-> "handleCommit", err |-> ~ok]
  /\ lastOp' = [op |-> "handleCommit"]
  /\ UNCHANGED <<lastFetch, articleRows, walkVars, fetchVars, concVars>>

\* app.articles, as handleIndex calls it.
Reconcile(failAt) ==
  /\ LET r == articles(lastFetch, articleRows, linkRows, failAt)
     IN /\ lastFetch' = r.batch
        /\ ret' = [op |-> "articles", list |-> r.list, err |-> r.err,
                   errURL |-> r.errURL, lookups |-> r.lookups]
  /\ lastOp' = [op |-> "articles", failAt |-> failAt]
  /\ UNCHANGED <<articleRows, linkRows, now, walkVars, fetchVars, concVars>>

Next ==
  \/ \E r \in AppFetches : Refresh(r)
  \/ \E url \in DismissURLs, ok \in BOOLEAN : Dismiss(url, ok)
  \/ \E url \in CommitURLs, ok \in BOOLEAN : Commit(url, ok)
  \/ \E failAt \in 0..lookupsOf(lastFetch, articleRows, linkRows) : Reconcile(failAt)

Spec == Init /\ [][Next]_vars

(***************************************************************************)
(* The rows of the store seen from outside.                                *)
(***************************************************************************)
HasDismissal(url) ==
  \E i \in 1..Len(articleRows) : articleRows[i].URL = url /\ articleRows[i].At # 0

HasLinkState(url) == \E i \in 1..Len(linkRows) : linkRows[i].URL = url

\* QueuedAt of the row of url with the lowest ID.
StoredQueuedAt(url) ==
  LET first == CHOOSE i \in 1..Len(linkRows) :
                 /\ linkRows[i].URL = url
                 /\ \A j \in 1..Len(linkRows) :
                      linkRows[j].URL = url => linkRows[i].ID <= linkRows[j].ID
  IN linkRows[first].At

Returned == ret.op = "articles" /\ ~ret.err

(***************************************************************************)
(* C1: no article with a persisted dismissal (non-zero DismissedAt) is in  *)
(* the list app.articles returns, whatever refreshes, dismissals, commits  *)
(* and reconciles came before, also when the article is in the latest      *)
(* batch and when the store holds several rows for its URL.                *)
(***************************************************************************)
C1_DismissedNeverListed ==
  ret.op = "articles" =>
     \A n \in 1..Len(ret.list) : ~HasDismissal(ret.list[n].URL)

\* An article of the batch dismissed twice, the other one listed.
C1_Witness ==
  /\ Returned
  /\ Len(lastFetch) = 2
  /\ Len(articleRows) = 2
  /\ articleRows[1].URL = lastFetch[1].URL
  /\ articleRows[2].URL = lastFetch[1].URL
  /\ Len(ret.list) = 1
  /\ ret.list[1] = lastFetch[2]

(***************************************************************************)
(* C2: every link of every article app.articles returns has Queued = TRUE  *)
(* and QueuedAt = the stored QueuedAt when the store holds a LinkState for *)
(* its URL, and Queued = FALSE when it holds none.                         *)
(***************************************************************************)
C2_LinksCarryQueueState ==
  Returned =>
     \A n \in 1..Len(ret.list) : \A j \in 1..Len(ret.list[n].Links) :
        LET l == ret.list[n].Links[j]
        IN IF HasLinkState(l.URL)
           THEN l.Queued /\ l.QueuedAt = StoredQueuedAt(l.URL)
           ELSE ~l.Queued

\* A link committed twice next to a link never committed.
C2_Witness ==
  /\ Returned
  /\ Len(linkRows) = 2
  /\ linkRows[1].URL = linkRows[2].URL
  /\ \E n \in 1..Len(ret.list) :
       /\ Len(ret.list[n].Links) = 2
       /\ ret.list[n].Links[1].Queued
       /\ ret.list[n].Links[1].QueuedAt = linkRows[1].At
       /\ ~ret.list[n].Links[2].Queued

(***************************************************************************)
(* C3: the list app.articles returns holds exactly the articles of the     *)
(* latest batch that are not dismissed, each as often as the batch does,   *)
(* and is in ascending order of Date.                                      *)
(***************************************************************************)
BagOfSeq(xs) ==
  LET S == { xs[i] : i \in 1..Len(xs) }
  IN [x \in S |-> Cardinality({ i \in 1..Len(xs) : xs[i] = x })]

Retained == SelectSeq(lastFetch, LAMBDA a : ~HasDismissal(a.URL))

C3_ListedSortedByDate ==
  Returned =>
     /\ BagOfSeq(ret.list) = BagOfSeq(Retained)
     /\ \A i, j \in 1..Len(ret.list) :
          i < j => ~(ret.list[j].Date < ret.list[i].Date)

\* Two articles fetched newest first come back oldest first.
C3_Witness ==
  /\ Returned
  /\ Len(lastFetch) = 2
  /\ lastFetch[1].Date = 3
  /\ lastFetch[2].Date = 1
  /\ ret.list = <<lastFetch[2], lastFetch[1]>>

(***************************************************************************)
(* C5: a published batch is immutable: no operation changes an Article or  *)
(* a Link of a.lastFetch in place; the batch changes only by refreshFeeds  *)
(* replacing it.                                                           *)
(***************************************************************************)
C5_PublishedBatchImmutable ==
  [][lastOp'.op # "refreshFeeds" => lastFetch' = lastFetch]_vars

(***************************************************************************)
(* C7: in app.articles a lookup that finds no row is no error; a lookup    *)
(* failing otherwise ends app.articles at that lookup with an error and    *)
(* no list, wherever in the batch it fails.                                *)
(***************************************************************************)
RECURSIVE ExpectedLookups(_)
ExpectedLookups(i) ==
  IF i > Len(lastFetch) THEN 0
  ELSE 1 + (IF HasDismissal(lastFetch[i].URL) THEN 0 ELSE Len(lastFetch[i].Links))
         + ExpectedLookups(i + 1)

C7_LookupFailureAborts ==
  ret.op = "articles" =>
     /\ lastOp.failAt = 0 => ~ret.err /\ ret.lookups = ExpectedLookups(1)
     /\ lastOp.failAt \in 1..ExpectedLookups(1) =>
           /\ ret.err
           /\ ret.list = <<>>
           /\ ret.lookups = lastOp.failAt

\* The fourth lookup fails after three that found no row, the first
\* article already reconciled.
C7_Witness ==
  /\ ret.op = "articles"
  /\ ret.err
  /\ lastOp.failAt = 4
  /\ articleRows = <<>>
  /\ linkRows = <<>>
  /\ Len(lastFetch) = 2
  /\ Len(lastFetch[1].Links) = 1
  /\ Len(lastFetch[2].Links) = 2

(***************************************************************************)
(* SpecSort: app.articles on every batch of at most MaxSortLen articles    *)
(* carrying one of two dates (items whose links are all self-links), the   *)
(* store empty.                                                            *)
(***************************************************************************)
SortURL(i) ==
  CASE i = 1 -> "http://example.com/p1"
    [] i = 2 -> "http://example.com/p2"
    [] i = 3 -> "http://example.com/p3"
    [] i = 4 -> "http://example.com/p4"
    [] i = 5 -> "http://example.com/p5"
    [] i = 6 -> "http://example.com/p6"
    [] i = 7 -> "http://example.com/p7"
    [] i = 8 -> "http://example.com/p8"
    [] OTHER -> "http://example.com/p9"

SortBatches ==
  { [i \in 1..Len(ds) |->
       [ID |-> 0, Title |-> "more links", URL |-> SortURL(i), Links |-> <<>>,
        Feed |-> "MR", Date |-> ds[i]]]
    : ds \in SeqsUpTo({1, 2}, MaxSortLen) }

InitSort ==
  /\ lastFetch \in SortBatches
  /\ InitStoreVars
  /\ tree = NilNode
  /\ InitWalkVars
  /\ InitFetchVars
  /\ InitConcVars

NextSort ==
  \E failAt \in 0..lookupsOf(lastFetch, articleRows, linkRows) : Reconcile(failAt)

SpecSort == InitSort /\ [][NextSort]_vars

(***************************************************************************)
(* C4: the date sort of app.articles is stable: two listed articles of     *)
(* equal Date are in the order they have in the fetched batch.             *)
(***************************************************************************)
PositionInBatch(a) == CHOOSE i \in 1..Len(lastFetch) : lastFetch[i].URL = a.URL

C4_SortIsStable ==
  Returned =>
     \A i, j \in 1..Len(ret.list) :
        (i < j /\ ret.list[i].Date = ret.list[j].Date) =>
           PositionInBatch(ret.list[i]) < PositionInBatch(ret.list[j])

(***************************************************************************)
(* SpecConc: refreshFeeds on its goroutine (main starts it with go, and    *)
(* handleRefresh calls it) while a handler runs app.articles.  a.lastFetch *)
(* is a slice header of several words (ptr, len) that refreshFeeds stores  *)
(* and app.articles loads with no synchronisation: the words are stored    *)
(* one by one, in either order, and a load between two stores sees one     *)
(* word of the new header and one of the old.                              *)
(***************************************************************************)
\* What stands at a place of memory that holds no article of the slice.
Invalid == [ID |-> 0, Title |-> "<invalid memory>"]

\* The elements a range over the header h iterates.
Deref(h, mem) ==
  [n \in 1..h.len |->
     IF h.ptr = 0 \/ n > Len(mem[h.ptr]) THEN Invalid ELSE mem[h.ptr][n]]

\* The pointer of a fresh backing array; a nil slice has none.
newPtr(all) == IF all = <<>> THEN 0 ELSE IF hdr.ptr = 1 THEN 2 ELSE 1

\* The feeds rss.Fetch delivers in the concurrent runs.
ConcFeeds ==
  { f \in AppFeeds : \A n \in 1..Len(f.Items) : f.Items[n].Content # DocSelf }

InitConc ==
  /\ InitConcVars
  /\ InitAppVars
  /\ tree = NilNode
  /\ InitWalkVars
  /\ InitFetchVars

\* refreshFeeds is called; fetch gets resp from rss.Fetch and fails on a
\* failed fetch or an unparseable feed link.
RefreshCall(resp) ==
  /\ rpc = "idle"
  /\ rlocal' = [NoLocals EXCEPT !.resp = resp, !.i = 1, !.old = hdr]
  /\ rpc' = IF fetch(resp).err THEN "failed" ELSE "fetching"
  /\ UNCHANGED <<heap, hdr, hpc, view, published, walkVars, fetchVars, appVars>>

\* refreshFeeds returns the error of fetch.
RefreshFail ==
  /\ rpc = "failed"
  /\ rpc' = "idle"
  /\ rlocal' = NoLocals
  /\ UNCHANGED <<heap, hdr, hpc, view, published, walkVars, fetchVars, appVars>>

\* One iteration of the loop of fetch, on its local slice all.
FetchItem ==
  /\ rpc = "fetching"
  /\ rlocal.i <= Len(rlocal.resp.Items)
  /\ rlocal' = [rlocal EXCEPT
                  !.all = fetchItem(rlocal.resp, rlocal.i,
                                    urlParse(rlocal.resp.Link).Host, rlocal.all),
                  !.i = rlocal.i + 1]
  /\ UNCHANGED <<heap, hdr, rpc, hpc, view, published, walkVars, fetchVars, appVars>>

\* fetch returns all, whose backing array the header will point to.
FetchReturn ==
  /\ rpc = "fetching"
  /\ rlocal.i > Len(rlocal.resp.Items)
  /\ rlocal' = [rlocal EXCEPT !.ptr = newPtr(rlocal.all)]
  /\ heap' = IF newPtr(rlocal.all) = 0 THEN heap
             ELSE [heap EXCEPT ![newPtr(rlocal.all)] = rlocal.all]
  /\ rpc' = "storing"
  /\ UNCHANGED <<hdr, hpc, view, published, walkVars, fetchVars, appVars>>

\* The garbage collector: the arrays no header points to are freed.
collect(mem, live) == [p \in 1..Len(mem) |-> IF p = live THEN mem[p] ELSE <<>>]

\* a.lastFetch = articles, one word of the header.
StoreWord(w) ==
  /\ rpc = "storing"
  /\ w \notin rlocal.wrote
  /\ hdr' = IF w = "ptr" THEN [hdr EXCEPT !.ptr = rlocal.ptr]
            ELSE [hdr EXCEPT !.len = Len(rlocal.all)]
  /\ IF rlocal.wrote \cup {w} = {"ptr", "len"}
     THEN /\ rpc' = "idle"
          /\ rlocal' = NoLocals
          /\ published' = rlocal.all
          /\ heap' = collect(heap, rlocal.ptr)
     ELSE /\ rpc' = "storing"
          /\ rlocal' = [rlocal EXCEPT !.wrote = rlocal.wrote \cup {w}]
          /\ UNCHANGED <<published, heap>>
  /\ UNCHANGED <<hpc, view, walkVars, fetchVars, appVars>>

\* app.articles evaluates a.lastFetch for its range loop.
RangeLoad ==
  /\ hpc = "idle"
  /\ hpc' = "ranging"
  /\ view' = [elems |-> Deref(hdr, heap),
              whole |-> \/ Deref(hdr, heap) = published
                        \/ rpc = "storing" /\ Deref(hdr, heap) = rlocal.all]
  /\ UNCHANGED <<heap, hdr, rpc, rlocal, published, walkVars, fetchVars, appVars>>

\* The loop and the sort of app.articles on what was loaded, the store
\* being empty; of the list returned only the length is kept.
RangeReturn ==
  /\ hpc = "ranging"
  /\ hpc' = "idle"
  /\ view' = NoView
  /\ ret' = IF \E n \in 1..Len(view.elems) : view.elems[n] = Invalid
            THEN [op |-> "articles", panic |-> TRUE, err |-> FALSE, listed |-> 0]
            ELSE [op |-> "articles", panic |-> FALSE,
                  err |-> articles(view.elems, articleRows, linkRows, 0).err,
                  listed |-> Len(articles(view.elems, articleRows, linkRows, 0).list)]
  /\ UNCHANGED <<heap, hdr, rpc, rlocal, published, walkVars, fetchVars,
                 lastFetch, articleRows, linkRows, now, lastOp>>

NextConc ==
  \/ \E resp \in ConcFeeds : RefreshCall(resp)
  \/ RefreshFail
  \/ FetchItem
  \/ FetchReturn
  \/ \E w \in {"ptr", "len"} : StoreWord(w)
  \/ RangeLoad
  \/ RangeReturn

SpecConc == InitConc /\ [][NextConc]_vars

(***************************************************************************)
(* C6: refresh is all or nothing: a refreshFeeds whose fetch fails leaves  *)
(* a.lastFetch as it was, a refreshFeeds that succeeds leaves in it the    *)
(* completely assembled batch, and app.articles running at any point of a  *)
(* refresh reads the whole old batch or the whole new one.                 *)
(***************************************************************************)
C6_RefreshAllOrNothing ==
  /\ rpc = "failed" => hdr = rlocal.old
  /\ rpc = "idle" => Deref(hdr, heap) = published
  /\ hpc = "ranging" => view.whole

==============================================================================
